---- MODULE Spec2Model ----
(***************************************************************************)
(* Model of the FDC+ serial drive simulator (fdc-sim-gui.cpp/.h): the      *)
(* Drive/Track state of FDCDialog, its GUI slots, and the STAT / READ /    *)
(* WRIT transactions it runs over the serial port.                         *)
(*                                                                         *)
(* Bytes are naturals 0..255.  cmdBuf is the 10-byte tcommand_t union,     *)
(* indexed 0..9 as in the code; its 16-bit members are read little-endian  *)
(* (the layout the protocol header and the host the program is built for   *)
(* share).  trackBuf (4386 bytes) and the bytes pending on the serial line *)
(* are kept run-length coded: a sequence of runs <<n, v>> standing for n   *)
(* bytes of value v.  The coding is exact for the piecewise-constant       *)
(* contents the modelled server sends; the byte counts are the program's.  *)
(***************************************************************************)
EXTENDS Integers, Sequences, FiniteSets, TLC

\* ---------------------------------------------------------------- constants
MAX_DRIVE == 4
CMDBUF_SIZE == 10
COMMAND_LENGTH == 8
TRACK_MAX_5 == 35
TRACK_MAX_8 == 77
TRACK_LEN_5 == 137 * 16
TRACK_LEN_8 == 137 * 32
TRACKBUF_LEN == TRACK_LEN_8
TRACKBUF_LEN_CRC == TRACKBUF_LEN + 2
STAT_OK == 0
STAT_NOT_READY == 1
STAT_CHECKSUM_ERR == 2
STAT_WRITE_ERR == 3

\* driveNum = 0xff: no drive selected
NO_DRIVE == 255

\* ------------------------------------------------------------------- bounds
\* read() results of -1 the transport may produce within one transaction
MaxReadErr == 1
\* commands that reach the serial port in one run
MaxCmds == 1
\* bytes a streaming server may have pending on the line
MaxBacklog == 3000

\* ------------------------------------------------------------ integer width
U8(x) == x % 256
U16(x) == x % 65536

Min(a, b) == IF a < b THEN a ELSE b

RECURSIVE BitOr(_, _)
\* a | b on naturals
BitOr(a, b) ==
    IF a = 0 THEN b
    ELSE IF b = 0 THEN a
    ELSE (IF (a % 2 = 1) \/ (b % 2 = 1) THEN 1 ELSE 0) + 2 * BitOr(a \div 2, b \div 2)

RECURSIVE Shl(_, _)
\* a << n
Shl(a, n) == IF n = 0 THEN a ELSE Shl(2 * a, n - 1)

\* bit i of x
Bit(x, i) == (x \div Shl(1, i)) % 2

\* ------------------------------------------------------------------- tags
\* ASCII codes of the four-character tags
TagSTAT == <<83, 84, 65, 84>>
TagREAD == <<82, 69, 65, 68>>
TagWRIT == <<87, 82, 73, 84>>
TagWSTA == <<87, 83, 84, 65>>

\* ------------------------------------------------------- run-length buffers
RECURSIVE RLen(_)
RLen(b) == IF b = <<>> THEN 0 ELSE b[1][1] + RLen(Tail(b))

\* b followed by c, adjacent equal runs merged
RCat(b, c) ==
    IF b = <<>> THEN c
    ELSE IF c = <<>> THEN b
    ELSE IF b[Len(b)][2] = c[1][2]
         THEN SubSeq(b, 1, Len(b) - 1) \o <<<<b[Len(b)][1] + c[1][1], c[1][2]>>>> \o Tail(c)
         ELSE b \o c

RECURSIVE RTake(_, _)
\* the first k bytes of b
RTake(b, k) ==
    IF k <= 0 \/ b = <<>> THEN <<>>
    ELSE IF b[1][1] >= k THEN <<<<k, b[1][2]>>>>
    ELSE <<b[1]>> \o RTake(Tail(b), k - b[1][1])

RECURSIVE RDrop(_, _)
\* b without its first k bytes
RDrop(b, k) ==
    IF k <= 0 \/ b = <<>> THEN b
    ELSE IF b[1][1] > k THEN <<<<b[1][1] - k, b[1][2]>>>> \o Tail(b)
    ELSE RDrop(Tail(b), k - b[1][1])

RECURSIVE RByte(_, _)
\* byte i (from 0) of b
RByte(b, i) == IF i < b[1][1] THEN b[1][2] ELSE RByte(Tail(b), i - b[1][1])

\* b with the bytes of chunk c stored from offset i on
RStore(b, i, c) == RCat(RCat(RTake(b, i), c), RDrop(b, i + RLen(c)))

RECURSIVE RFromSeq(_)
\* run-length coding of a plain byte sequence
RFromSeq(s) == IF s = <<>> THEN <<>> ELSE RCat(<<<<1, s[1]>>>>, RFromSeq(Tail(s)))

\* n bytes of value v
RFill(n, v) == IF n <= 0 THEN <<>> ELSE <<<<n, v>>>>

\* ----------------------------------------------------------------- checksum
RECURSIVE ChecksumLoop(_, _, _)
\* the for loop of calcChecksum: the iterations over one run of n equal
\* bytes v add n * v, wrapped to 16 bits
ChecksumLoop(data, length, checksum) ==
    IF length <= 0 \/ data = <<>> THEN checksum
    ELSE LET n == Min(data[1][1], length)
         IN  ChecksumLoop(Tail(data), length - n, U16(checksum + n * data[1][2]))

RECURSIVE SaturatingLoop(_, _, _)
SaturatingLoop(data, length, checksum) ==
    IF length <= 0 \/ data = <<>> THEN checksum
    ELSE LET n == Min(data[1][1], length)
         IN  SaturatingLoop(Tail(data), length - n, Min(65535, checksum + n * data[1][2]))

\* the checksum stopping at 65535 instead of wrapping
calcChecksum_Saturating(data, length) == SaturatingLoop(data, length, 0)

\* quint16 FDCDialog::calcChecksum(const quint8 *data, int length)
calcChecksum(data, length) == ChecksumLoop(data, length, 0)

\* ------------------------------------------------------ tcommand_t (cmdBuf)
\* cmdBuf.asBytes as a run-length buffer
AsBytes(buf) == RFromSeq([i \in 1..CMDBUF_SIZE |-> buf[i - 1]])

\* 16-bit little-endian member at byte offset off
Word(buf, off) == buf[off] + 256 * buf[off + 1]
WithWord(buf, off, v) == [buf EXCEPT ![off] = U16(v) % 256, ![off + 1] = U16(v) \div 256]

Param1(buf) == Word(buf, 4)
Param2(buf) == Word(buf, 6)
Rcode(buf) == Word(buf, 4)
Rdata(buf) == Word(buf, 6)
ChecksumField(buf) == Word(buf, 8)

WithCommand(buf, tag) ==
    [buf EXCEPT ![0] = tag[1], ![1] = tag[2], ![2] = tag[3], ![3] = tag[4]]

\* the frame checksum kept to its low byte
WithChecksum_LowByte(buf) == WithWord(buf, 8, calcChecksum(AsBytes(buf), COMMAND_LENGTH) % 256)

\* cmdBuf.checksum = calcChecksum(cmdBuf.asBytes, COMMAND_LENGTH)
WithChecksum(buf) == WithWord(buf, 8, calcChecksum(AsBytes(buf), COMMAND_LENGTH))

RECURSIVE StrLen(_, _, _)
\* strlen(): the index of the first NUL at or after i, n if there is none
StrLen(m, i, n) == IF i >= n \/ m[i] = 0 THEN i ELSE StrLen(m, i + 1, n)

\* byte i lies within the string and is a UTF-8 continuation byte
IsCont(m, i, end) == i < end /\ m[i] \in 128..191

RECURSIVE FromUtf8(_, _, _, _)
\* QString::fromUtf8 of bytes i..end-1 of m, as UTF-16 code units, cut off
\* once n units are there: an ASCII byte is its character; a well-formed
\* sequence of 2, 3 or 4 bytes is its code point (a surrogate pair above
\* U+FFFF); a byte that starts no well-formed sequence (a stray
\* continuation byte, an overlong or truncated form, a surrogate, a value
\* above U+10FFFF) is U+FFFD and decoding goes on at the next byte
FromUtf8(m, i, end, n) ==
    IF n <= 0 \/ i >= end THEN <<>>
    ELSE LET b == m[i]
             u2 == (b - 192) * 64 + (m[i + 1] - 128)
             u3 == (b - 224) * 4096 + (m[i + 1] - 128) * 64 + (m[i + 2] - 128)
             u4 == (b - 240) * 262144 + (m[i + 1] - 128) * 4096
                     + (m[i + 2] - 128) * 64 + (m[i + 3] - 128)
         IN  IF b < 128 THEN <<b>> \o FromUtf8(m, i + 1, end, n - 1)
             ELSE IF b \in 194..223 /\ IsCont(m, i + 1, end)
                  THEN <<u2>> \o FromUtf8(m, i + 2, end, n - 1)
             ELSE IF /\ b \in 224..239
                     /\ IsCont(m, i + 1, end) /\ IsCont(m, i + 2, end)
                     /\ u3 >= 2048 /\ u3 \notin 55296..57343
                  THEN <<u3>> \o FromUtf8(m, i + 3, end, n - 1)
             ELSE IF /\ b \in 240..244
                     /\ IsCont(m, i + 1, end) /\ IsCont(m, i + 2, end)
                     /\ IsCont(m, i + 3, end)
                     /\ u4 \in 65536..1114111
                  THEN <<55232 + (u4 \div 1024), 56320 + (u4 % 1024)>>
                         \o FromUtf8(m, i + 4, end, n - 2)
             ELSE <<65533>> \o FromUtf8(m, i + 1, end, n - 1)

\* QString::left(n)
Left(t, n) == SubSeq(t, 1, Min(n, Len(t)))

\* QString(const char *) of the bytes m[0..n-1], then left(4): the bytes up
\* to the first NUL decoded as UTF-8, a byte order mark in front skipped
TagOf(m, n) ==
    LET end == StrLen(m, 0, n)
        from == IF end >= 3 /\ m[0] = 239 /\ m[1] = 187 /\ m[2] = 191 THEN 3 ELSE 0
    IN  Left(FromUtf8(m, from, end, 4), 4)

RECURSIVE StatParam1Loop(_, _, _)
\* for (d = 0; d < MAX_DRIVE; d++) cmdBuf.param1 |= (headStatus[d] != 0) << d
StatParam1Loop(p, d, heads) ==
    IF d >= MAX_DRIVE THEN p
    ELSE StatParam1Loop(BitOr(p, Shl(IF heads[d] # 0 THEN 1 ELSE 0, d)), d + 1, heads)

\* param1 of the STAT command
StatParam1(drive, heads) == U16(StatParam1Loop(drive, 0, heads))

\* param1 of the READ and WRIT commands: trackNum | (driveNum << 12)
RwParam1(track, drive) == U16(BitOr(track, Shl(drive, 12)))

StatFrame(buf, drive, heads) ==
    WithChecksum(WithWord(WithWord(WithCommand(buf, TagSTAT), 4, StatParam1(drive, heads)), 6, 0))

RwFrame(buf, tag, track, drive, len) ==
    WithChecksum(WithWord(WithWord(WithCommand(buf, tag), 4, RwParam1(track, drive)), 6, len))

\* ---------------------------------------------------------------- messages
\* messageLabel text: the template (kind) and its arguments
Msg(kind, code, a, b, tag) == [kind |-> kind, code |-> code, a |-> a, b |-> b, tag |-> tag]
NoMsg == Msg("", "", 0, 0, <<>>)
MsgReadError == Msg("read() error", "", 0, 0, <<>>)
MsgStatMismatch(tag) == Msg("Did not receive 'STAT' response", "", 0, 0, tag)
MsgStat(rdata) == Msg("Received 'STAT' response", "", rdata, 0, <<>>)
MsgTrack(len) == Msg("Received byte track", "", len, 0, <<>>)
MsgPartial(got, expected) == Msg("Received of bytes", "", got, expected, <<>>)
MsgWritMismatch(tag) == Msg("Did not receive 'WRIT' response", "", 0, 0, tag)
MsgWritRefused(code) == Msg("Received <code> WSTA response", code, 0, 0, <<>>)
MsgWstaMismatch(tag) == Msg("Did not receive 'WSTA' response", "", 0, 0, tag)
MsgWsta(code) == Msg("Received WSTA <code> response", code, 0, 0, <<>>)

\* switch (cmdBuf.rcode) of the WRIT response (rcode != STAT_OK there)
WritCodeText(rcode) ==
    IF rcode = STAT_NOT_READY THEN "NOT READY"
    ELSE IF rcode = STAT_CHECKSUM_ERR THEN "CHECKSUM ERROR"
    ELSE IF rcode = STAT_WRITE_ERR THEN "WRITE ERROR"
    ELSE "UNKNOWN"

\* the WSTA switch looking at the low byte of the code only
WstaCodeText_LowByte(rcode) ==
    IF rcode % 256 = STAT_OK THEN "OK"
    ELSE IF rcode % 256 = STAT_NOT_READY THEN "NOT READY"
    ELSE IF rcode % 256 = STAT_CHECKSUM_ERR THEN "CHECKSUM ERROR"
    ELSE IF rcode % 256 = STAT_WRITE_ERR THEN "WRITE ERROR"
    ELSE "UNKNOWN"

\* switch (cmdBuf.rcode) of the WSTA response
WstaCodeText(rcode) ==
    IF rcode = STAT_OK THEN "OK"
    ELSE IF rcode = STAT_NOT_READY THEN "NOT READY"
    ELSE IF rcode = STAT_CHECKSUM_ERR THEN "CHECKSUM ERROR"
    ELSE IF rcode = STAT_WRITE_ERR THEN "WRITE ERROR"
    ELSE "UNKNOWN"

\* ------------------------------------------------------------ input fields
IsDigit(c) == c \in 48..57
DigitVal(c) == c - 48

AllDigits(t) == t # <<>> /\ \A i \in 1..Len(t) : IsDigit(t[i])

\* QChar::isSpace(): U+0009..U+000D, U+0020, U+0085, U+00A0 and the
\* separators of the categories Zs, Zl and Zp
IsSpace(c) ==
    \/ c \in 9..13
    \/ c \in {32, 133, 160, 5760, 8232, 8233, 8239, 8287, 12288}
    \/ c \in 8192..8202

\* the characters read as the signs: '+', and '-' or U+2212 MINUS SIGN
IsPlus(c) == c = 43
IsMinus(c) == c \in {45, 8722}

RECURSIVE TrimLeft(_)
TrimLeft(t) == IF t # <<>> /\ IsSpace(t[1]) THEN TrimLeft(Tail(t)) ELSE t

RECURSIVE TrimRight(_)
TrimRight(t) ==
    IF t # <<>> /\ IsSpace(t[Len(t)]) THEN TrimRight(SubSeq(t, 1, Len(t) - 1)) ELSE t

\* the text without the white space in front of it and behind it
Trimmed(t) == TrimRight(TrimLeft(t))

RECURSIVE NegVal(_, _)
\* the digits of t accumulated as a negative int: <<TRUE, -value>>, or
\* <<FALSE, 0>> when the value leaves the range of int
NegVal(t, acc) ==
    IF t = <<>> THEN <<TRUE, acc>>
    ELSE IF acc < -214748364 \/ (acc = -214748364 /\ DigitVal(t[1]) > 8) THEN <<FALSE, 0>>
    ELSE NegVal(Tail(t), 10 * acc - DigitVal(t[1]))

\* QString::toInt() of a text given as its UTF-16 code units: white space
\* around the number is skipped, one sign may precede the decimal digits;
\* the result is 0 for any other text and for a value outside the range of
\* int
ToInt(t) ==
    LET s == Trimmed(t)
        signed == s # <<>> /\ (IsPlus(s[1]) \/ IsMinus(s[1]))
        digits == IF signed THEN Tail(s) ELSE s
        neg == IF AllDigits(digits) THEN NegVal(digits, 0) ELSE <<FALSE, 0>>
    IN  IF ~neg[1] THEN 0
        ELSE IF signed /\ IsMinus(s[1]) THEN neg[2]
        ELSE IF neg[2] = -2147483647 - 1 THEN 0
        ELSE 0 - neg[2]

\* texts the operator types into the drive and track fields, as code units:
\* "", "3", a vertical tab and "+3", "4"; "1234", "16384", "4294967296"
DriveTexts == {<<>>, <<51>>, <<11, 43, 51>>, <<52>>}
TrackTexts ==
    {<<49, 50, 51, 52>>, <<49, 54, 51, 56, 52>>,
     <<52, 50, 57, 52, 57, 54, 55, 50, 57, 54>>}

\* combo box rows
DiskItems == <<TRACK_LEN_8, TRACK_LEN_5>>
PortRows == {0}

\* values the bytes of the storage the dialog is built in may hold
UninitBytes == {0, 229}

\* a qint16 member both bytes of which hold v
UninitIdx(v) == IF 257 * v >= 32768 THEN 257 * v - 65536 ELSE 257 * v

\* ------------------------------------------------------------------- server
\* a 10-byte frame as the server builds it; delta # 0 spoils the checksum
SrvFrame(tag, f1, f2, delta) ==
    LET z == [i \in 0..(CMDBUF_SIZE - 1) |-> 0]
        f == WithWord(WithWord(WithCommand(z, tag), 4, f1), 6, f2)
    IN  AsBytes(WithWord(f, 8, calcChecksum(AsBytes(f), COMMAND_LENGTH) + delta))

\* len data bytes of value v and the 2-byte little-endian trailer
SrvTrack(len, v, delta) ==
    LET c == U16(len * v + delta)
    IN  RCat(RFill(len, v), RFromSeq(<<c % 256, c \div 256>>))

SrvStatFrames ==
    {SrvFrame(TagSTAT, 0, 5, 0), SrvFrame(TagSTAT, 7, 5, 0), SrvFrame(TagSTAT, 0, 5, 1)}
SrvWritFrames ==
    {SrvFrame(TagWRIT, rc, 0, 0) : rc \in {0, 1, 2, 3, 4}} \cup {SrvFrame(TagWRIT, 0, 0, 1)}
SrvWstaFrames ==
    {SrvFrame(TagWSTA, rc, 0, 0) : rc \in {0, 1, 2, 3, 4, 256}} \cup {SrvFrame(TagWSTA, 0, 0, 1)}
SrvTracks ==
    {SrvTrack(TRACK_LEN_8, 255, 0), SrvTrack(TRACK_LEN_8, 255, 1),
     SrvTrack(TRACK_LEN_5, 255, 0), RFill(4000, 255)}
SrvShort == {RTake(SrvFrame(TagSTAT, 0, 5, 0), 6)}

\* what the server may put on the line in answer to what it received last:
\* the frames or tracks of that exchange, well-formed or not, and a frame
\* of another exchange
ServerBlocks(heard) ==
    IF heard = "STAT" THEN SrvStatFrames \cup SrvShort \cup {SrvFrame(TagWSTA, 0, 0, 0)}
    ELSE IF heard = "READ" THEN SrvTracks
    ELSE IF heard = "WRIT" THEN SrvWritFrames \cup {SrvFrame(TagSTAT, 0, 5, 0)}
    ELSE IF heard = "data" THEN SrvWstaFrames \cup {SrvFrame(TagWRIT, 0, 0, 0)}
    ELSE {}

\* sizes in which a read may deliver part of what is pending: of a frame,
\* of a track
FrameChunks == {4}
TrackChunks == {4000}

\* ------------------------------------------------------------------- state
VARIABLES
    portOpen,    \* serialPort->isOpen()
    portIndex,   \* serialPortBox->currentIndex()
    driveNum, trackNum, trackMax, trackLen, headStatus,
    statAuto,    \* statAutoCheck->isChecked()
    cmdBuf, cmdBufIdx, trackBuf, trkBufIdx,
    bytesAvail,  \* local of the command in progress
    checksum,    \* local of readCmd / writCmd
    msg,         \* messageLabel
    box,         \* the QMessageBox::critical on screen, "none" if none
    pc,          \* where the innermost handler stands
    rx,          \* bytes the server has sent and no read has taken
    srvOwes,     \* what the engine wrote that the server has not answered, or "none"
    tx,          \* the writes of the last command that used the port: kind, byte count
    nErr,        \* read() errors within that command
    lastRead,    \* <<r>>: result of the last read() of that command, <<>> if none
    rxCount,     \* bytes the reads of the wait in progress have delivered
    nCmd         \* commands started so far

vars == <<portOpen, portIndex, driveNum, trackNum, trackMax, trackLen, headStatus,
          statAuto, cmdBuf, cmdBufIdx, trackBuf, trkBufIdx, bytesAvail, checksum,
          msg, box, pc, rx, srvOwes, tx, nErr, lastRead, rxCount, nCmd>>

driveVars == <<driveNum, trackNum, trackMax, trackLen, headStatus>>
bufVars == <<cmdBuf, cmdBufIdx, trackBuf, trkBufIdx, bytesAvail, checksum>>
txnVars == <<tx, nErr, lastRead, rxCount, nCmd>>

FrameWaits == {"statWait", "writWait1", "writWait3"}

\* QString(cmdBuf.command).left(4) with buf in cmdBuf: the string starts at
\* the first byte of the frame and runs to the first NUL, through the ten
\* bytes of the frame and on into headStatus, the member behind cmdBuf (four
\* characters take at most thirteen bytes)
TagStr(buf) ==
    TagOf([i \in 0..(CMDBUF_SIZE + MAX_DRIVE - 1) |->
              IF i < CMDBUF_SIZE THEN buf[i] ELSE headStatus[i - CMDBUF_SIZE]],
          CMDBUF_SIZE + MAX_DRIVE)

\* FDCDialog::FDCDialog: the members the constructor assigns, and those it
\* leaves as the storage held them (cmdBuf, cmdBufIdx, trkBufIdx filled with
\* the byte fill, trackBuf holding image)
InitState(fill, image) ==
    /\ portOpen = FALSE
    /\ portIndex = -1
    /\ driveNum = NO_DRIVE
    /\ trackNum = 0
    /\ trackMax = TRACK_MAX_8
    /\ trackLen = TRACK_LEN_8
    /\ headStatus = [d \in 0..(MAX_DRIVE - 1) |-> 0]
    /\ statAuto = FALSE
    /\ cmdBuf = [i \in 0..(CMDBUF_SIZE - 1) |-> fill]
    /\ cmdBufIdx = UninitIdx(fill)
    /\ trackBuf = image
    /\ trkBufIdx = UninitIdx(fill)
    /\ bytesAvail = FALSE
    /\ checksum = 0
    /\ msg = NoMsg
    /\ box = "none"
    /\ pc = "idle"
    /\ rx = <<>>
    /\ srvOwes = "none"
    /\ tx = <<>>
    /\ nErr = 0
    /\ lastRead = <<>>
    /\ rxCount = 0
    /\ nCmd = 0

\* the dialog built in storage every byte of which holds one value
Init == \E v \in UninitBytes : InitState(v, RFill(TRACKBUF_LEN_CRC, v))

\* the main window takes input: no handler is running and no modal box is up
Ready == pc = "idle" /\ box = "none"

\* ---------------------------------------------------------------- GUI slots
\* void FDCDialog::diskSlot(int index): the disk-type row changed
diskSlot(index) ==
    /\ Ready
    /\ DiskItems[index + 1] # trackLen
    /\ trackLen' = DiskItems[index + 1]
    /\ trackMax' = IF trackLen' = TRACK_LEN_8 THEN TRACK_MAX_8 ELSE TRACK_MAX_5
    /\ UNCHANGED <<portOpen, portIndex, driveNum, trackNum, headStatus, statAuto, bufVars,
                   msg, box, pc, rx, srvOwes, txnVars>>

\* void FDCDialog::updateSerialPort(), for the row index now current and
\* the result of open() / setBaudRate()
updateSerialPort(index, outcome) ==
    /\ rx' = IF portOpen \/ (index # -1 /\ outcome = "ok") THEN <<>> ELSE rx
    /\ portOpen' = (index # -1 /\ outcome \in {"ok", "baud"})
    /\ box' = IF index = -1 \/ outcome = "ok" THEN box
              ELSE IF outcome = "baud" THEN "Could not set baudrate"
              ELSE "Could not open serial port"

OpenOutcomes == {"ok", "baud", "fail"}

\* void FDCDialog::serialPortSlot(int index): the operator picked a port
serialPortSlot(index, outcome) ==
    /\ Ready
    /\ index # portIndex
    /\ portIndex' = index
    /\ updateSerialPort(index, outcome)
    /\ UNCHANGED <<driveVars, statAuto, bufVars, msg, pc, srvOwes, txnVars>>

\* void FDCDialog::baudRateSlot(int index): the operator picked a baud rate
baudRateSlot(outcome) ==
    /\ Ready
    /\ updateSerialPort(portIndex, outcome)
    /\ UNCHANGED <<portIndex, driveVars, statAuto, bufVars, msg, pc, srvOwes, txnVars>>

\* void FDCDialog::driveNumEditSlot()
driveNumEditSlot(text) ==
    /\ Ready
    /\ driveNum' = IF Len(text) = 0 THEN NO_DRIVE ELSE U8(ToInt(text))
    /\ UNCHANGED <<portOpen, portIndex, trackNum, trackMax, trackLen, headStatus, statAuto,
                   bufVars, msg, box, pc, rx, srvOwes, txnVars>>

\* void FDCDialog::trackNumEditSlot()
trackNumEditSlot(text) ==
    /\ Ready
    /\ trackNum' = U16(ToInt(text))
    /\ UNCHANGED <<portOpen, portIndex, driveNum, trackMax, trackLen, headStatus, statAuto,
                   bufVars, msg, box, pc, rx, srvOwes, txnVars>>

\* void FDCDialog::statAutoCheckSlot(int state): the Auto box toggled; it
\* disables the STAT button while checked
statAutoCheckSlot ==
    /\ Ready
    /\ statAuto' = ~statAuto
    /\ UNCHANGED <<portOpen, portIndex, driveVars, bufVars, msg, box, pc, rx, srvOwes, txnVars>>

\* the operator closes the message box; the handler that raised it resumes
\* (updateSerialPort: clear() after a baud-rate failure, setCurrentIndex(-1)
\* and the nested serialPortSlot(-1) after a failed open)
boxDismiss ==
    /\ pc = "idle"
    /\ box # "none"
    /\ box' = "none"
    /\ rx' = IF box = "Could not set baudrate" THEN <<>> ELSE rx
    /\ portIndex' = IF box = "Could not open serial port" THEN -1 ELSE portIndex
    /\ UNCHANGED <<portOpen, driveVars, statAuto, bufVars, msg, pc, srvOwes, txnVars>>

\* --------------------------------------------------------------- transport
\* the server answers a write of the engine
serverSend(b) ==
    /\ portOpen
    /\ rx = <<>>
    /\ b \in ServerBlocks(srvOwes)
    /\ rx' = b
    /\ srvOwes' = "none"
    /\ UNCHANGED <<portOpen, portIndex, driveVars, statAuto, bufVars, msg, box, pc, txnVars>>

\* results <<waitForReadyRead(), read()>> of one read attempt for at most
\* max bytes: new data and a count (all that is pending or one of the
\* partial sizes), no new data and what was buffered, or a read error
ReadResults(max, partial) ==
    LET a == Min(max, RLen(rx))
    IN  {<<TRUE, k>> : k \in {c \in {a} \cup partial : 1 <= c /\ c <= a}}
        \cup {<<FALSE, k>> : k \in {0, a}}
        \cup (IF nErr < MaxReadErr THEN {<<TRUE, -1>>, <<FALSE, -1>>} ELSE {})

\* the same for the wait for a frame, where the result of waitForReadyRead()
\* is stored and never looked at: one result for each read() count
FrameReadResults(max) ==
    {res \in ReadResults(max, FrameChunks) : res[1] = (res[2] > 0)}

\* every write issued a second time
Written_Twice(log, kind, len) ==
    Append(Append(log, [kind |-> kind, len |-> len]), [kind |-> kind, len |-> len])

\* serialPort->write(data, len) entered in the log of the command
Written(log, kind, len) == Append(log, [kind |-> kind, len |-> len])

\* ---------------------------------------------------------------- commands
\* the drive check with its upper limit off by one
DriveInvalid_OffByOne(d) == d < 0 \/ d > MAX_DRIVE

\* if (driveNum < 0 || driveNum >= MAX_DRIVE)
DriveInvalid(d) == d < 0 \/ d >= MAX_DRIVE

\* while (cmdBufIdx < CMDBUF_SIZE && cmdBufIdx != -1)
FrameLoopAgain(idx) == idx < CMDBUF_SIZE /\ idx # -1

\* the READ loop going on until the block is complete, data or no data
TrackLoopAgain_UntilFull(idx, len, avail) == idx < len + 2

\* while (trkBufIdx < trackLen + 2 && bytesAvail)
TrackLoopAgain(idx, len, avail) == idx < len + 2 /\ avail

\* read((char *) &cmdBuf.asBytes[idx], ...) returning r: the bytes stored
StoreCmd(buf, idx, r) ==
    IF r <= 0 THEN buf
    ELSE [i \in 0..(CMDBUF_SIZE - 1) |->
            IF i >= idx /\ i < idx + r THEN RByte(rx, i - idx) ELSE buf[i]]

\* read((char *) &trackBuf[idx], ...) returning r: the bytes stored in
\* trackBuf (with idx = -1 the first byte falls in front of trackBuf)
StoreTrack(buf, idx, r) ==
    IF r <= 0 THEN buf
    ELSE IF idx < 0 THEN RStore(buf, 0, RDrop(RTake(rx, r), 1))
    ELSE RStore(buf, idx, RTake(rx, r))

\* the member in front of trackBuf is headStatus[MAX_DRIVE - 1]: a byte
\* stored at trackBuf[-1] lands there, or in padding
SpillHeads(idx, r) ==
    IF idx = -1 /\ r >= 1
    THEN {headStatus, [headStatus EXCEPT ![MAX_DRIVE - 1] = RByte(rx, 0)]}
    ELSE {headStatus}

\* the transport after a read() that returned r
Taken(r) == IF r > 0 THEN RDrop(rx, r) ELSE rx
ErrCount(r) == IF r = -1 THEN nErr + 1 ELSE nErr
Delivered(r) == IF r > 0 THEN rxCount + r ELSE rxCount

\* the STAT report taking the bitmap from the ResponseCode word
StatMessage_Rcode(buf, idx, auto, old) ==
    IF idx = -1 THEN MsgReadError
    ELSE IF TagStr(buf) # TagSTAT THEN MsgStatMismatch(TagStr(buf))
    ELSE IF auto = FALSE THEN MsgStat(Rcode(buf))
    ELSE old

\* the STAT report given only for a ResponseCode of OK
StatMessage_OkOnly(buf, idx, auto, old) ==
    IF idx = -1 THEN MsgReadError
    ELSE IF TagStr(buf) # TagSTAT THEN MsgStatMismatch(TagStr(buf))
    ELSE IF auto = FALSE /\ Rcode(buf) = STAT_OK THEN MsgStat(Rdata(buf))
    ELSE old

\* messageLabel after the STAT wait
StatMessage(buf, idx, auto, old) ==
    IF idx = -1 THEN MsgReadError
    ELSE IF TagStr(buf) # TagSTAT THEN MsgStatMismatch(TagStr(buf))
    ELSE IF auto = FALSE THEN MsgStat(Rdata(buf))
    ELSE old

\* the READ report leaving the two checksum bytes out of the expected count
ReadMessage_NoTrailer(idx, len) ==
    IF idx = len + 2 THEN MsgTrack(len)
    ELSE IF idx = -1 THEN MsgReadError
    ELSE MsgPartial(idx, len)

\* messageLabel after the READ receive loop
ReadMessage(idx, len) ==
    IF idx = len + 2 THEN MsgTrack(len)
    ELSE IF idx = -1 THEN MsgReadError
    ELSE MsgPartial(idx, len + 2)

\* the grant test refusing on NOT READY only
WritGranted_NotReadyOnly(buf) == Rcode(buf) # STAT_NOT_READY

\* if (cmdBuf.rcode == STAT_OK): the server grants the data phase
WritGranted(buf) == Rcode(buf) = STAT_OK

\* how the WRIT response wait ends: "go" opens the data phase
WritPhase1(buf, idx) ==
    IF idx = -1 THEN [go |-> FALSE, msg |-> MsgReadError]
    ELSE IF TagStr(buf) # TagWRIT THEN [go |-> FALSE, msg |-> MsgWritMismatch(TagStr(buf))]
    ELSE IF WritGranted(buf) THEN [go |-> TRUE, msg |-> NoMsg]
    ELSE [go |-> FALSE, msg |-> MsgWritRefused(WritCodeText(Rcode(buf)))]

\* messageLabel after the WSTA wait
WstaMessage(buf, idx) ==
    IF idx = -1 THEN MsgReadError
    ELSE IF TagStr(buf) # TagWSTA THEN MsgWstaMismatch(TagStr(buf))
    ELSE MsgWsta(WstaCodeText(Rcode(buf)))

\* the trailer summed over the whole 8-inch buffer whatever the geometry
WithTrailer_WholeBuffer(buf, len) ==
    LET c == calcChecksum(buf, TRACKBUF_LEN)
    IN  RStore(buf, len, RFromSeq(<<c % 256, (c \div 256) % 256>>))

\* the track block of the WRIT data phase: trackBuf with the trailer stored
WithTrailer(buf, len) ==
    LET c == calcChecksum(buf, len)
    IN  RStore(buf, len, RFromSeq(<<c % 256, (c \div 256) % 256>>))

\* STAT commands that may reach the port in one run: MaxCmds commands of
\* any kind, and one more STAT once a head-load flag has been overwritten,
\* so that the frame that carries the flags can follow the READ that
\* overwrote one
StatBudget == IF \E d \in 0..(MAX_DRIVE - 1) : headStatus[d] # 0 THEN MaxCmds + 1 ELSE MaxCmds

\* a command goes on to use the port: the log of the previous one is dropped
Begin(budget) ==
    /\ nCmd < budget
    /\ nCmd' = nCmd + 1
    /\ nErr' = 0
    /\ lastRead' = <<>>
    /\ rxCount' = 0

\* QMessageBox::critical(...) and return
Critical(text) ==
    /\ box' = text
    /\ UNCHANGED <<portOpen, portIndex, driveVars, statAuto, bufVars, msg, pc, rx, srvOwes,
                   txnVars>>

\* void FDCDialog::statCmd(), up to the first wait
statCmd ==
    IF ~portOpen THEN Critical("Serial port not open")
    ELSE /\ Begin(StatBudget)
         /\ cmdBuf' = StatFrame(cmdBuf, driveNum, headStatus)
         /\ tx' = Written(<<>>, "cmd", CMDBUF_SIZE)
         /\ srvOwes' = "STAT"
         /\ cmdBufIdx' = 0
         /\ pc' = "statWait"
         /\ UNCHANGED <<portOpen, portIndex, driveVars, statAuto, trackBuf, trkBufIdx,
                        bytesAvail, checksum, msg, box, rx>>

\* void FDCDialog::statButtonSlot(); the button is disabled while Auto is checked
statButtonSlot == Ready /\ ~statAuto /\ statCmd

\* void FDCDialog::timerSlot(), also run by the event loop of a message box
timerSlot == pc = "idle" /\ portOpen /\ statAuto /\ statCmd

\* one pass of the do-while of statCmd and, when it ends, the rest of statCmd
statWait ==
    /\ pc = "statWait"
    /\ \E res \in FrameReadResults(CMDBUF_SIZE - cmdBufIdx) :
         LET r == res[2]
             idx == cmdBufIdx + r
         IN  /\ bytesAvail' = res[1]
             /\ lastRead' = <<r>>
             /\ cmdBuf' = StoreCmd(cmdBuf, cmdBufIdx, r)
             /\ cmdBufIdx' = idx
             /\ rx' = Taken(r)
             /\ nErr' = ErrCount(r)
             /\ rxCount' = Delivered(r)
             /\ IF FrameLoopAgain(idx)
                THEN UNCHANGED <<pc, msg>>
                ELSE /\ pc' = "idle"
                     /\ msg' = StatMessage(cmdBuf', idx, statAuto, msg)
    /\ UNCHANGED <<portOpen, portIndex, driveVars, statAuto, trackBuf, trkBufIdx, checksum,
                   box, srvOwes, tx, nCmd>>

\* void FDCDialog::readCmd(), up to the receive loop
readCmd ==
    IF ~portOpen THEN Critical("Serial port not open")
    ELSE IF DriveInvalid(driveNum) THEN Critical("Invalid drive number")
    ELSE /\ Begin(MaxCmds)
         /\ cmdBuf' = RwFrame(cmdBuf, TagREAD, trackNum, driveNum, trackLen)
         /\ tx' = Written(<<>>, "cmd", CMDBUF_SIZE)
         /\ srvOwes' = "READ"
         /\ trkBufIdx' = 0
         /\ pc' = "readWait"
         /\ UNCHANGED <<portOpen, portIndex, driveVars, statAuto, cmdBufIdx, trackBuf,
                        bytesAvail, checksum, msg, box, rx>>

\* void FDCDialog::readButtonSlot()
readButtonSlot == Ready /\ readCmd

\* one pass of the do-while of readCmd and, when it ends, the rest of readCmd
readWait ==
    /\ pc = "readWait"
    /\ \E res \in ReadResults(TRACKBUF_LEN_CRC - trkBufIdx, TrackChunks) :
         LET r == res[2]
             idx == trkBufIdx + r
         IN  /\ bytesAvail' = res[1]
             /\ lastRead' = <<r>>
             /\ trackBuf' = StoreTrack(trackBuf, trkBufIdx, r)
             /\ headStatus' \in SpillHeads(trkBufIdx, r)
             /\ trkBufIdx' = idx
             /\ rx' = Taken(r)
             /\ nErr' = ErrCount(r)
             /\ rxCount' = Delivered(r)
             /\ IF TrackLoopAgain(idx, trackLen, res[1])
                THEN UNCHANGED <<pc, msg, checksum>>
                ELSE /\ pc' = "idle"
                     /\ msg' = ReadMessage(idx, trackLen)
                     /\ checksum' = IF idx = trackLen + 2
                                    THEN calcChecksum(trackBuf', TRACKBUF_LEN)
                                    ELSE checksum
    /\ UNCHANGED <<portOpen, portIndex, driveNum, trackNum, trackMax, trackLen, statAuto,
                   cmdBuf, cmdBufIdx, box, srvOwes, tx, nCmd>>

\* void FDCDialog::writCmd(), up to the first wait
writCmd ==
    IF ~portOpen THEN Critical("Serial port not open")
    ELSE IF DriveInvalid(driveNum) THEN Critical("Invalid drive number")
    ELSE /\ Begin(MaxCmds)
         /\ cmdBuf' = RwFrame(cmdBuf, TagWRIT, trackNum, driveNum, trackLen)
         /\ tx' = Written(<<>>, "cmd", CMDBUF_SIZE)
         /\ srvOwes' = "WRIT"
         /\ cmdBufIdx' = 0
         /\ pc' = "writWait1"
         /\ UNCHANGED <<portOpen, portIndex, driveVars, statAuto, trackBuf, trkBufIdx,
                        bytesAvail, checksum, msg, box, rx>>

\* void FDCDialog::writButtonSlot()
writButtonSlot == Ready /\ writCmd

\* one pass of the first do-while of writCmd and, when it ends, writCmd up
\* to its return or to the WSTA wait
writWait1 ==
    /\ pc = "writWait1"
    /\ \E res \in FrameReadResults(CMDBUF_SIZE - cmdBufIdx) :
         LET r == res[2]
             idx == cmdBufIdx + r
             buf == StoreCmd(cmdBuf, cmdBufIdx, r)
             end == WritPhase1(buf, idx)
         IN  /\ bytesAvail' = res[1]
             /\ cmdBuf' = buf
             /\ rx' = Taken(r)
             /\ nErr' = ErrCount(r)
             /\ IF FrameLoopAgain(idx)
                THEN /\ cmdBufIdx' = idx
                     /\ lastRead' = <<r>>
                     /\ rxCount' = Delivered(r)
                     /\ UNCHANGED <<pc, msg, checksum, trackBuf, tx, srvOwes>>
                ELSE IF end.go
                THEN /\ checksum' = calcChecksum(trackBuf, trackLen)
                     /\ trackBuf' = WithTrailer(trackBuf, trackLen)
                     /\ tx' = Written(tx, "data", trackLen + 2)
                     /\ srvOwes' = "data"
                     /\ cmdBufIdx' = 0
                     /\ lastRead' = <<r>>
                     /\ rxCount' = 0
                     /\ pc' = "writWait3"
                     /\ UNCHANGED msg
                ELSE /\ cmdBufIdx' = idx
                     /\ lastRead' = <<r>>
                     /\ rxCount' = Delivered(r)
                     /\ pc' = "idle"
                     /\ msg' = end.msg
                     /\ UNCHANGED <<checksum, trackBuf, tx, srvOwes>>
    /\ UNCHANGED <<portOpen, portIndex, driveVars, statAuto, trkBufIdx, box, nCmd>>

\* one pass of the second do-while of writCmd and, when it ends, the rest
writWait3 ==
    /\ pc = "writWait3"
    /\ \E res \in FrameReadResults(CMDBUF_SIZE - cmdBufIdx) :
         LET r == res[2]
             idx == cmdBufIdx + r
         IN  /\ bytesAvail' = res[1]
             /\ lastRead' = <<r>>
             /\ cmdBuf' = StoreCmd(cmdBuf, cmdBufIdx, r)
             /\ cmdBufIdx' = idx
             /\ rx' = Taken(r)
             /\ nErr' = ErrCount(r)
             /\ rxCount' = Delivered(r)
             /\ IF FrameLoopAgain(idx)
                THEN UNCHANGED <<pc, msg>>
                ELSE /\ pc' = "idle"
                     /\ msg' = WstaMessage(cmdBuf', idx)
    /\ UNCHANGED <<portOpen, portIndex, driveVars, statAuto, trackBuf, trkBufIdx, checksum,
                   box, srvOwes, tx, nCmd>>

\* ------------------------------------------------------------ specification
Next ==
    \/ \E index \in 0..1 : diskSlot(index)
    \/ \E index \in PortRows, outcome \in OpenOutcomes : serialPortSlot(index, outcome)
    \/ \E outcome \in OpenOutcomes : baudRateSlot(outcome)
    \/ \E text \in DriveTexts : driveNumEditSlot(text)
    \/ \E text \in TrackTexts : trackNumEditSlot(text)
    \/ statAutoCheckSlot
    \/ boxDismiss
    \/ \E b \in ServerBlocks(srvOwes) : serverSend(b)
    \/ statButtonSlot
    \/ timerSlot
    \/ statWait
    \/ readButtonSlot
    \/ readWait
    \/ writButtonSlot
    \/ writWait1
    \/ writWait3

Spec == Init /\ [][Next]_vars

\* The checksum over every kind of buffer contents: trackBuf is never
\* initialised by the program, so it may start with any bytes; these images
\* have sums below 65536, equal to 65536 and far above it, and bytes on both
\* sides of 128.
TrackImages ==
    {RFill(TRACKBUF_LEN_CRC, v) : v \in {0, 1, 255}}
    \cup {RCat(RFill(a, v[1]), RFill(TRACKBUF_LEN_CRC - a, v[2])) :
            a \in {1, TRACK_LEN_5, TRACKBUF_LEN - 1},
            v \in {<<0, 255>>, <<255, 0>>, <<128, 255>>, <<127, 128>>}}
    \cup {RCat(RCat(RFill(257, 255), RFill(1, 1)), RFill(TRACKBUF_LEN_CRC - 258, 0))}

InitChecksum == \E v \in UninitBytes : \E image \in TrackImages : InitState(v, image)

\* the steps that compute a checksum (the command frames, the WRIT data
\* block) and what leads to them
NextChecksum ==
    \/ \E index \in 0..1 : diskSlot(index)
    \/ \E index \in PortRows : serialPortSlot(index, "ok")
    \/ \E text \in DriveTexts : driveNumEditSlot(text)
    \/ \E text \in TrackTexts : trackNumEditSlot(text)
    \/ \E b \in ServerBlocks(srvOwes) : serverSend(b)
    \/ statButtonSlot
    \/ readButtonSlot
    \/ writButtonSlot
    \/ writWait1

SpecChecksum == InitChecksum /\ [][NextChecksum]_vars

\* The READ exchange against a server that may go on sending: while the
\* receive loop runs, further blocks of track bytes join what is pending on
\* the line, as long as the line holds no more than MaxBacklog bytes.
StreamBlocks == {RFill(1500, 255)}

serverStream(b) ==
    /\ portOpen
    /\ pc = "readWait"
    /\ b \in StreamBlocks
    /\ RLen(rx) + RLen(b) <= MaxBacklog
    /\ rx' = RCat(rx, b)
    /\ srvOwes' = "none"
    /\ UNCHANGED <<portOpen, portIndex, driveVars, statAuto, bufVars, msg, box, pc, txnVars>>

NextRead ==
    \/ \E index \in 0..1 : diskSlot(index)
    \/ \E index \in PortRows : serialPortSlot(index, "ok")
    \/ \E text \in DriveTexts : driveNumEditSlot(text)
    \/ \E b \in ServerBlocks(srvOwes) : serverSend(b)
    \/ \E b \in StreamBlocks : serverStream(b)
    \/ readButtonSlot
    \/ boxDismiss
    \/ readWait

\* readCmd runs its loop to the end: the handler is never suspended for ever
SpecRead == Init /\ [][NextRead]_vars /\ WF_vars(readWait)

TypeOK ==
    /\ driveNum \in 0..255
    /\ trackNum \in 0..65535
    /\ cmdBufIdx \in -32768..32767
    /\ trkBufIdx \in -32768..32767
    /\ pc \in FrameWaits => cmdBufIdx \in -1..CMDBUF_SIZE
    /\ RLen(trackBuf) = TRACKBUF_LEN_CRC

\* ------------------------------------------------------------------- claims
\* the checksum field of a 10-byte frame matches its first 8 bytes
FrameChecksumOK(buf) == ChecksumField(buf) = calcChecksum(AsBytes(buf), COMMAND_LENGTH)

\* the name the protocol gives a ResponseCode
CodeName(rc) ==
    CASE rc = 0 -> "OK"
      [] rc = 1 -> "NOT READY"
      [] rc = 2 -> "CHECKSUM ERROR"
      [] rc = 3 -> "WRITE ERROR"
      [] OTHER -> "UNKNOWN"

\* a wait for a response frame ends in this step with all 10 bytes stored
FrameArrives(wait) == pc = wait /\ pc' # wait /\ cmdBufIdx + lastRead'[1] = CMDBUF_SIZE

\* C1: a wait for a 10-byte response frame ends when a read times out with
\* no byte arriving: no frame wait is still in progress after a read() that
\* returned 0.
C1_WaitEndsOnTimeout == ~(pc \in FrameWaits /\ lastRead = <<0>>)

\* C2: a received frame whose checksum field differs from the sum of its
\* first 8 bytes is never treated as valid: it yields no reported STAT
\* bitmap, opens no WRIT data phase and yields no reported WSTA outcome.
C2_ChecksumVerified ==
    [][(\/ FrameArrives("statWait") /\ msg' = MsgStat(Rdata(cmdBuf')) /\ ~statAuto
        \/ pc = "writWait1" /\ pc' = "writWait3"
        \/ FrameArrives("writWait3") /\ msg'.kind = "Received WSTA <code> response")
       => FrameChecksumOK(cmdBuf')]_vars

\* C3: the track data block is written only after the WRIT command frame
\* was sent and a response with tag "WRIT" and ResponseCode OK was received;
\* when the response has another tag or another code, the transaction ends
\* reporting that condition, writes no data block and starts no WSTA wait.
C3_DataOnlyAfterGrant ==
    [][/\ (tx' # tx /\ tx'[Len(tx')].kind = "data")
          => /\ FrameArrives("writWait1")
             /\ tx = <<[kind |-> "cmd", len |-> CMDBUF_SIZE]>>
             /\ TagStr(cmdBuf') = TagWRIT
             /\ Rcode(cmdBuf') = STAT_OK
       /\ (FrameArrives("writWait1") /\ ~(TagStr(cmdBuf') = TagWRIT /\ Rcode(cmdBuf') = STAT_OK))
          => /\ pc' = "idle"
             /\ tx' = tx
             /\ srvOwes' = srvOwes
             /\ msg' = IF TagStr(cmdBuf') # TagWRIT
                       THEN MsgWritMismatch(TagStr(cmdBuf'))
                       ELSE MsgWritRefused(CodeName(Rcode(cmdBuf')))]_vars

\* C3 witness: a WRIT refused with NOT_READY ended with only its command
\* frame written.
C3_Witness ==
    /\ pc = "idle"
    /\ msg = MsgWritRefused("NOT READY")
    /\ Rcode(cmdBuf) = STAT_NOT_READY
    /\ tx = <<[kind |-> "cmd", len |-> CMDBUF_SIZE]>>

\* the 16-bit little-endian trailer behind len bytes of track data
Trailer(buf, len) == RByte(buf, len) + 256 * RByte(buf, len + 1)

\* C4: when a READ receives trackLen + 2 bytes, the engine sums exactly the
\* first trackLen bytes, compares with the little-endian trailer and reports
\* success with the count trackLen and a validity flag that is true iff the
\* two are equal.
C4_ReadChecksumReported ==
    [][(pc = "readWait" /\ pc' = "idle" /\ nErr' = 0 /\ rxCount' = trackLen + 2)
       => /\ checksum' = calcChecksum(trackBuf', trackLen)
          /\ msg'.a = trackLen
          /\ msg'.code = IF checksum' = Trailer(trackBuf', trackLen)
                         THEN "checksum valid" ELSE "checksum invalid"]_vars

\* C5: when the server stops before trackLen + 2 bytes have arrived, READ
\* reports partial reception with the exact number of bytes received and the
\* expected count trackLen + 2, never success.
C5_PartialReported ==
    [][(pc = "readWait" /\ pc' = "idle" /\ nErr' = 0 /\ rxCount' < trackLen + 2)
       => msg' = MsgPartial(rxCount', trackLen + 2)]_vars

\* C5 witness: 4000 of 4386 bytes arrived in 8-inch geometry and the next
\* read attempt returned 0.
C5_Witness ==
    /\ pc = "idle"
    /\ lastRead = <<0>>
    /\ rxCount = 4000
    /\ trackLen = TRACK_LEN_8
    /\ msg = MsgPartial(4000, 4386)

\* C6: a READ or WRIT issued while the selected drive is outside
\* [0, MAX_DRIVE) writes no byte to the transport and, the port being open,
\* fails at once with the invalid-drive error.
C6_InvalidDriveRejected ==
    [][((readButtonSlot \/ writButtonSlot) /\ driveNum \notin 0..(MAX_DRIVE - 1))
       => /\ pc' = "idle"
          /\ tx' = tx
          /\ srvOwes' = srvOwes
          /\ cmdBuf' = cmdBuf
          /\ box' # "none"
          /\ portOpen => box' = "Invalid drive number"]_vars

\* C6 witness: the invalid-drive box is up with no drive selected (0xFF) on
\* an open port, nothing written.
C6_Witness ==
    /\ box = "Invalid drive number"
    /\ driveNum = NO_DRIVE
    /\ portOpen
    /\ pc = "idle"
    /\ tx = <<>>

\* C7: in every READ or WRIT command frame written, bits 0..11 of field1
\* are the current track number, bits 12..15 the selected drive number, and
\* field2 is the track length of the active geometry, for every track
\* number the caller can set.
C7_RwFrameFields ==
    [][(pc = "idle" /\ pc' \in {"readWait", "writWait1"})
       => /\ Param1(cmdBuf') % 4096 = trackNum
          /\ Param1(cmdBuf') \div 4096 = driveNum
          /\ Param2(cmdBuf') = trackLen]_vars

\* C8: in every STAT command frame written, the low byte of field1 is the
\* selected drive number, bit i of the high byte is set iff the head of
\* drive i is loaded, and field2 is 0.
C8_StatFrameFields ==
    [][(pc = "idle" /\ pc' = "statWait")
       => /\ Param1(cmdBuf') % 256 = driveNum
          /\ \A i \in 0..(MAX_DRIVE - 1) :
                Bit(Param1(cmdBuf') \div 256, i) = IF headStatus[i] # 0 THEN 1 ELSE 0
          /\ Param2(cmdBuf') = 0]_vars

\* C9 as claimed: after every STAT exchange whose response carries the tag
\* "STAT" the reported drive-mount bitmap is the response's field2; with
\* another tag a tag mismatch is reported and no bitmap.
C9_StatBitmapAlways ==
    [][FrameArrives("statWait")
       => msg' = IF TagStr(cmdBuf') = TagSTAT
                 THEN MsgStat(Rdata(cmdBuf'))
                 ELSE MsgStatMismatch(TagStr(cmdBuf'))]_vars

\* C9 as amended: a STAT started with Auto unchecked whose response carries
\* the tag "STAT" reports field2 of the response as the bitmap; a STAT of
\* the auto timer (Auto checked) with such a response leaves the message as
\* it was; in both cases a response with another tag is reported as a tag
\* mismatch and no bitmap is reported.
C9_StatBitmapUnlessAuto ==
    [][FrameArrives("statWait")
       => msg' = IF TagStr(cmdBuf') # TagSTAT THEN MsgStatMismatch(TagStr(cmdBuf'))
                 ELSE IF statAuto THEN msg
                 ELSE MsgStat(Rdata(cmdBuf'))]_vars

\* C9 witness: a manual STAT answered with field1 = 7, field2 = 5 reported
\* the bitmap 5 (drives 0 and 2).
C9_Witness ==
    /\ pc = "idle"
    /\ ~statAuto
    /\ TagStr(cmdBuf) = TagSTAT
    /\ Rcode(cmdBuf) = 7
    /\ Rdata(cmdBuf) = 5
    /\ msg = MsgStat(5)
    /\ Bit(msg.a, 0) = 1 /\ Bit(msg.a, 1) = 0 /\ Bit(msg.a, 2) = 1 /\ Bit(msg.a, 3) = 0

\* C10: a frame with tag "WSTA" received in the final status wait is
\* reported by its ResponseCode alone: 0 OK, 1 NOT READY, 2 CHECKSUM ERROR,
\* 3 WRITE ERROR, any other value UNKNOWN; a frame with another tag is
\* reported as a tag mismatch.
C10_WstaOutcome ==
    [][FrameArrives("writWait3")
       => msg' = IF TagStr(cmdBuf') = TagWSTA
                 THEN MsgWsta(CodeName(Rcode(cmdBuf')))
                 ELSE MsgWstaMismatch(TagStr(cmdBuf'))]_vars

\* C10 witness: a WSTA frame with ResponseCode 256 was reported UNKNOWN.
C10_Witness ==
    /\ pc = "idle"
    /\ TagStr(cmdBuf) = TagWSTA
    /\ Rcode(cmdBuf) = 256
    /\ msg = MsgWsta("UNKNOWN")

RECURSIVE SumRuns(_, _)
\* the arithmetic sum of the first k bytes of a run-length buffer
SumRuns(b, k) ==
    IF k <= 0 \/ b = <<>> THEN 0
    ELSE IF b[1][1] >= k THEN k * b[1][2]
    ELSE b[1][1] * b[1][2] + SumRuns(Tail(b), k - b[1][1])

\* the arithmetic sum of the first 8 bytes of a frame
SumFrame(buf) == buf[0] + buf[1] + buf[2] + buf[3] + buf[4] + buf[5] + buf[6] + buf[7]

CmdWrite == [kind |-> "cmd", len |-> CMDBUF_SIZE]

\* C11: after an OK phase-1 response WRIT writes exactly one block of
\* trackLen + 2 bytes in one write: the trackLen data bytes as they were,
\* followed by the little-endian trailer equal to the sum of exactly those
\* trackLen bytes modulo 65536, in both geometries.
C11_WritBlock ==
    [][(pc = "writWait1" /\ pc' = "writWait3")
       => /\ trackLen \in {TRACK_LEN_8, TRACK_LEN_5}
          /\ tx' = <<CmdWrite, [kind |-> "data", len |-> trackLen + 2]>>
          /\ RTake(trackBuf', trackLen) = RTake(trackBuf, trackLen)
          /\ RByte(trackBuf', trackLen) = (SumRuns(trackBuf, trackLen) % 65536) % 256
          /\ RByte(trackBuf', trackLen + 1) = (SumRuns(trackBuf, trackLen) % 65536) \div 256]_vars

\* C11 witness: in minidisk geometry, over 2192 bytes of 229, the block of
\* 2194 bytes was written with the trailer 43216 (229 * 2192 mod 65536).
C11_Witness ==
    /\ pc = "writWait3"
    /\ trackLen = TRACK_LEN_5
    /\ tx = <<CmdWrite, [kind |-> "data", len |-> 2194]>>
    /\ RTake(trackBuf, TRACK_LEN_5) = RFill(TRACK_LEN_5, 229)
    /\ Trailer(trackBuf, TRACK_LEN_5) = 43216

\* C12: every command frame written to the transport (STAT, READ, WRIT) is
\* exactly 10 bytes, and its last two bytes, read little-endian, are the sum
\* of its first 8 bytes modulo 65536.
C12_CommandFrames ==
    [][(tx' # tx /\ tx'[Len(tx')].kind = "cmd")
       => /\ tx'[Len(tx')].len = 10
          /\ RLen(AsBytes(cmdBuf')) = 10
          /\ TagStr(cmdBuf') \in {TagSTAT, TagREAD, TagWRIT}
          /\ cmdBuf'[8] + 256 * cmdBuf'[9] = SumFrame(cmdBuf') % 65536]_vars

\* C12 witness: the READ frame for drive 3, track 1234, 8-inch geometry was
\* written with checksum 595.
C12_Witness ==
    /\ pc = "readWait"
    /\ tx = <<CmdWrite>>
    /\ TagStr(cmdBuf) = TagREAD
    /\ driveNum = 3 /\ trackNum = 1234 /\ trackLen = TRACK_LEN_8
    /\ ChecksumField(cmdBuf) = 595

\* a frame with bytes i and j exchanged
Swapped(buf, i, j) == [buf EXCEPT ![i] = buf[j], ![j] = buf[i]]

RECURSIVE RReverse(_)
\* the bytes of a run-length buffer in reverse order
RReverse(b) == IF b = <<>> THEN <<>> ELSE RReverse(Tail(b)) \o <<b[1]>>

\* C13: calcChecksum(data, length) is the sum of data[0..length) modulo
\* 65536 (wrapping, not saturating, bytes unsigned) and does not change
\* when the bytes are reordered, both where the program applies it to the 8
\* header bytes of a command frame and where it applies it to the trackLen
\* bytes of a track block.
C13_ChecksumIsSum ==
    [][/\ (tx' # tx /\ tx'[Len(tx')].kind = "cmd")
          => /\ ChecksumField(cmdBuf') = SumFrame(cmdBuf') % 65536
             /\ \A i, j \in 0..(COMMAND_LENGTH - 1) :
                   calcChecksum(AsBytes(Swapped(cmdBuf', i, j)), COMMAND_LENGTH)
                     = ChecksumField(cmdBuf')
       /\ (pc = "writWait1" /\ pc' = "writWait3")
          => /\ checksum' = SumRuns(trackBuf, trackLen) % 65536
             /\ checksum' = calcChecksum(RReverse(RTake(trackBuf, trackLen)), trackLen)
             /\ \A v \in {trackBuf[k][2] : k \in 1..Len(trackBuf)} : v \in 0..255]_vars

\* C13 witness: WRIT summed 8-inch track data whose bytes add up to exactly
\* 65536 and got 0.
C13_Witness ==
    /\ pc = "writWait3"
    /\ trackLen = TRACK_LEN_8
    /\ SumRuns(trackBuf, TRACK_LEN_8) = 65536
    /\ checksum = 0

\* a report of failure: read error, tag mismatch, refusal, partial reception,
\* a final status other than OK
FailureMsg(m) ==
    \/ m.kind \in {"read() error", "Did not receive 'STAT' response",
                   "Did not receive 'WRIT' response", "Did not receive 'WSTA' response",
                   "Received <code> WSTA response", "Received of bytes"}
    \/ m.kind = "Received WSTA <code> response" /\ m.code # "OK"

\* this step ends a transaction in failure: the error box of a command that
\* does not start, or the end of a wait with a report of failure
EndsInFailure ==
    \/ pc = "idle" /\ pc' = "idle" /\ box' # box
         /\ box' \in {"Serial port not open", "Invalid drive number"}
    \/ pc # "idle" /\ pc' = "idle" /\ FailureMsg(msg')

\* C14: a transaction that ends in failure leaves the Drive/Track State as
\* it was before the transaction and the transport open: no step of a
\* transaction changes the selected drive, the track number, the geometry or
\* the open state of the port, and at the failing end the head-load flags
\* are those the transaction started with (all clear: no operation of the
\* program loads a head).
C14_FailureKeepsState ==
    [][/\ (pc # "idle" \/ pc' # "idle" \/ EndsInFailure)
          => /\ UNCHANGED <<driveNum, trackNum, trackMax, trackLen>>
             /\ portOpen' = portOpen
       /\ EndsInFailure => headStatus' = [d \in 0..(MAX_DRIVE - 1) |-> 0]]_vars

\* the command frames in the write log of a transaction
CmdCount(log) == Cardinality({i \in 1..Len(log) : log[i].kind = "cmd"})

\* C15: the engine never retries on its own: a transaction writes at most
\* one command frame, a command frame is written only in the step in which
\* a STAT, READ or WRIT is issued, and no step of a transaction in progress,
\* its failing end included, writes another one.
C15_NoRetry ==
    [][/\ CmdCount(tx') <= 1
       /\ (tx' # tx /\ tx'[Len(tx')].kind = "cmd")
          => /\ pc = "idle" /\ pc' \in {"statWait", "readWait", "writWait1"}
             /\ nCmd' = nCmd + 1
             /\ tx' = <<CmdWrite>>
       /\ pc # "idle"
          => /\ CmdCount(tx') = CmdCount(tx)
             /\ nCmd' = nCmd
             /\ pc' = "idle" => srvOwes' = srvOwes /\ tx' = tx]_vars

\* C15 witness: a STAT answered with a frame of another tag ended in a tag
\* mismatch with the one command frame written and nothing pending.
C15_Witness ==
    /\ pc = "idle"
    /\ msg = MsgStatMismatch(TagWSTA)
    /\ tx = <<CmdWrite>>
    /\ nCmd = 1
    /\ rx = <<>>

\* ResponseCode values a STAT response may carry
StatCodes == {0, 1, 2, 3, 7, 255, 256, 65535}

\* C16: the outcome of a STAT does not depend on the ResponseCode (field1)
\* of the response: had the response frame carried any other field1 (with
\* the matching checksum), the report would be the one made, and the
\* exchange changes nothing of the Drive/Track State, the port or the boxes.
C16_StatIgnoresCode ==
    [][FrameArrives("statWait")
       => /\ \A rc \in StatCodes :
               StatMessage(WithChecksum(WithWord(cmdBuf', 4, rc)), cmdBufIdx', statAuto, msg)
                 = msg'
          /\ UNCHANGED <<driveVars, portOpen, portIndex, statAuto, box, trackBuf, tx>>]_vars

\* C16 witness: a well-formed STAT response with ResponseCode 7 and bitmap
\* 5 was reported as bitmap 5 with no drive selected.
C16_Witness ==
    /\ pc = "idle"
    /\ lastRead # <<>>
    /\ TagStr(cmdBuf) = TagSTAT
    /\ Rcode(cmdBuf) = 7
    /\ FrameChecksumOK(cmdBuf)
    /\ msg = MsgStat(5)
    /\ driveNum = NO_DRIVE

\* C17: whenever a read() returns -1 during a frame wait or the READ receive
\* loop, the transaction ends at that read and reports the read error,
\* however many bytes had been stored before.
C17_ReadErrorEndsTxn ==
    [][(pc # "idle" /\ nErr' = nErr + 1)
       => /\ pc' = "idle"
          /\ msg' = MsgReadError]_vars

\* C18: the READ receive loop never accumulates more than trackLen + 2
\* bytes in either geometry, so the reported count never exceeds the
\* reported expected count.
C18_ReadBounded ==
    [][pc = "readWait"
       => /\ rxCount' <= trackLen + 2
          /\ trkBufIdx' <= trackLen + 2
          /\ msg'.kind = "Received of bytes" => msg'.a <= msg'.b]_vars

\* C19: transactions are one at a time on the transport: while a READ or
\* WRIT that raised an error box has not returned, no STAT is in progress
\* on the port.
C19_OneAtATime ==
    ~(/\ box \in {"Serial port not open", "Invalid drive number"}
      /\ pc # "idle")

\* C20: in every reachable state the track number is below the track
\* maximum of the active geometry (77 for 8-inch, 35 for minidisk).
C20_TrackBounded ==
    /\ trackMax = (IF trackLen = TRACK_LEN_8 THEN 77 ELSE 35)
    /\ trackNum < trackMax

\* C21: at every transport read the receive index is inside its buffer:
\* cmdBufIdx in 0..10 while a frame wait is about to read, trkBufIdx in
\* 0..TRACKBUF_LEN_CRC while the READ loop is about to read, so that no read
\* is issued with a negative index or for more bytes than the space left.
C21_IndicesInBounds ==
    /\ pc \in FrameWaits
          => /\ cmdBufIdx \in 0..CMDBUF_SIZE
             /\ cmdBufIdx + (CMDBUF_SIZE - cmdBufIdx) <= CMDBUF_SIZE
    /\ pc = "readWait"
          => /\ trkBufIdx \in 0..TRACKBUF_LEN_CRC
             /\ trkBufIdx + (TRACKBUF_LEN_CRC - trkBufIdx) <= RLen(trackBuf)

\* C22: a READ that has written its command always terminates, whatever
\* the server does: it ends at the first wait that reports no data, and it
\* ends against a server that never stops sending.
C22_ReadTerminates ==
    /\ [][(readWait /\ ~bytesAvail') => pc' = "idle"]_vars
    /\ (pc = "readWait") ~> (pc = "idle")

\* C22 witness: in 8-inch geometry a READ fed by a streaming server ended
\* with the buffer full, 4386 bytes received, bytes still pending.
C22_Witness ==
    /\ pc = "idle"
    /\ trackLen = TRACK_LEN_8
    /\ trkBufIdx = TRACKBUF_LEN_CRC
    /\ msg = MsgTrack(TRACK_LEN_8)
    /\ rx # <<>>

====
